---- MODULE Spec2Model ----
(***************************************************************************)
(* A model of ocgrpc_propagation (trace_common.go): the client and server  *)
(* stats-handler hooks that create spans and move span contexts through    *)
(* gRPC metadata, the uber-trace-id relay interceptors, the textual        *)
(* header decoder and the lifecycle-event recorder.                        *)
(*                                                                         *)
(* Strings are sequences of one-character strings, byte slices are         *)
(* sequences of integers 0..255, a metadata.MD is a function from the keys *)
(* it holds to the sequence of values of each key.                         *)
(***************************************************************************)
EXTENDS Integers, Sequences, FiniteSets, TLC

(* ------------------------------------------------------------------ *)
(* Program constants                                                   *)
(* ------------------------------------------------------------------ *)

traceContextKey == "grpc-trace-bin"

jaegerContextKey == "uber-trace-id"

\* len(trace.TraceID), the 16 of "start := 16 - len(b)"
TraceIDLen == 16

\* len(trace.SpanID), the 8 of "start := 8 - len(b)"
SpanIDLen == 8

\* The 8 of "if len(b) <= 8": the lower 64 bits of the trace id
LowerHalfLen == 8

\* codes.Internal
Internal == 13

(* ------------------------------------------------------------------ *)
(* Bounds of the model                                                 *)
(* ------------------------------------------------------------------ *)

\* longest trace-id field (in characters) the decoder is fed: two bytes
\* more than the TraceID buffer holds
MaxTraceHexLen == 36

\* longest span-id field (in characters) the decoder is fed
MaxSpanHexLen == 20

\* number of digit patterns the generated hex fields are drawn from
NumPatterns == 2

\* lifecycle events delivered to one call
MaxEvents == 3

(* ------------------------------------------------------------------ *)
(* encoding/hex and strings                                            *)
(* ------------------------------------------------------------------ *)

HexDigits == <<"0","1","2","3","4","5","6","7","8","9","a","b","c","d","e","f">>

UpperHexDigits == <<"A","B","C","D","E","F">>

IsHexChar(c) ==
  \/ \E i \in 1..Len(HexDigits) : HexDigits[i] = c
  \/ \E i \in 1..Len(UpperHexDigits) : UpperHexDigits[i] = c

\* hex.fromHexChar
HexVal(c) ==
  IF \E i \in 1..Len(HexDigits) : HexDigits[i] = c
  THEN (CHOOSE i \in 1..Len(HexDigits) : HexDigits[i] = c) - 1
  ELSE (CHOOSE i \in 1..Len(UpperHexDigits) : UpperHexDigits[i] = c) + 9

\* hex.DecodeString: an error for a character outside [0-9a-fA-F] or an odd
\* length, otherwise one byte per two characters, the first the high nibble
hexDecodeString(s) ==
  IF (\E i \in 1..Len(s) : ~IsHexChar(s[i])) \/ Len(s) % 2 # 0
  THEN [err |-> TRUE, b |-> <<>>]
  ELSE [err |-> FALSE,
        b |-> [i \in 1..(Len(s) \div 2) |->
                 16 * HexVal(s[2 * i - 1]) + HexVal(s[2 * i])]]

\* A plausible slip: the pad nibble goes to the wrong end of the field
hexDecodePaddedRight(h) ==
  hexDecodeString(IF Len(h) % 2 # 0 THEN h \o <<"0">> ELSE h)

hexDecodePadded(h) ==
  hexDecodeString(IF Len(h) % 2 # 0 THEN <<"0">> \o h ELSE h)

\* strings.Split(s, ":"): the fields between the separators, one more than
\* there are separators (a string without separator is one field)
RECURSIVE Split(_)
Split(s) ==
  IF \A i \in 1..Len(s) : s[i] # ":"
  THEN <<s>>
  ELSE LET p == CHOOSE i \in 1..Len(s) :
                  s[i] = ":" /\ \A j \in 1..(i - 1) : s[j] # ":"
       IN <<SubSeq(s, 1, p - 1)>> \o Split(SubSeq(s, p + 1, Len(s)))

\* copy(dst[start:], src) on a fixed-size array dst: the slice expression
\* panics when start is outside 0..len(dst); copy writes min(len) elements
CopyAt(dst, start, src) ==
  IF start < 0 \/ start > Len(dst)
  THEN [panic |-> TRUE, v |-> dst]
  ELSE [panic |-> FALSE,
        v |-> [i \in 1..Len(dst) |->
                 IF i > start /\ i - start <= Len(src)
                 THEN src[i - start] ELSE dst[i]]]

(* ------------------------------------------------------------------ *)
(* trace.SpanContext and the decoder of the textual header             *)
(* ------------------------------------------------------------------ *)

Zeros(n) == [i \in 1..n |-> 0]

\* the zero value of trace.SpanContext ("var parent trace.SpanContext")
ZeroSC == [TraceID |-> Zeros(TraceIDLen), SpanID |-> Zeros(SpanIDLen),
           TraceOptions |-> 0]

\* spanContextFromJaeger: panic is the run-time panic of a slice expression
\* with a negative start; with panic = TRUE nothing is returned
spanContextFromJaeger(jv) ==
  LET parts == Split(jv) IN
  IF Len(parts) # 4
  THEN [panic |-> FALSE, parent |-> ZeroSC, ok |-> TRUE]
  ELSE
    LET t == hexDecodePadded(parts[1])
        tstart == IF Len(t.b) <= LowerHalfLen
                  THEN LowerHalfLen + (LowerHalfLen - Len(t.b))
                  ELSE TraceIDLen - Len(t.b)
        tc == CopyAt(ZeroSC.TraceID, tstart, t.b)
        s == hexDecodePadded(parts[2])
        sc == CopyAt(ZeroSC.SpanID, SpanIDLen - Len(s.b), s.b)
    IN IF t.err THEN [panic |-> FALSE, parent |-> ZeroSC, ok |-> FALSE]
       ELSE IF tc.panic THEN [panic |-> TRUE, parent |-> ZeroSC, ok |-> FALSE]
       ELSE IF s.err
       THEN [panic |-> FALSE, ok |-> FALSE,
             parent |-> [ZeroSC EXCEPT !.TraceID = tc.v]]
       ELSE IF sc.panic THEN [panic |-> TRUE, parent |-> ZeroSC, ok |-> FALSE]
       ELSE [panic |-> FALSE, ok |-> TRUE,
             parent |-> [TraceID |-> tc.v, SpanID |-> sc.v,
                         TraceOptions |-> IF parts[4] = <<"1">> THEN 1 ELSE 0]]

(* ------------------------------------------------------------------ *)
(* propagation.Binary / propagation.FromBinary (the primary codec)     *)
(* ------------------------------------------------------------------ *)

\* propagation.Binary: nil for the zero span context, otherwise version 0,
\* field 0 + trace id, field 1 + span id, field 2 + options
Binary(sc) ==
  IF sc = ZeroSC THEN <<>>
  ELSE <<0, 0>> \o sc.TraceID \o <<1>> \o sc.SpanID \o <<2, sc.TraceOptions>>

\* propagation.FromBinary
FromBinary(b) ==
  IF Len(b) = 0 \/ b[1] # 0 THEN [sc |-> ZeroSC, ok |-> FALSE]
  ELSE
    LET b1 == Tail(b) IN
    IF ~(Len(b1) >= TraceIDLen + 1 /\ b1[1] = 0)
    THEN [sc |-> ZeroSC, ok |-> FALSE]
    ELSE
      LET tid == SubSeq(b1, 2, TraceIDLen + 1)
          b2 == SubSeq(b1, TraceIDLen + 2, Len(b1))
          hasSid == Len(b2) >= SpanIDLen + 1 /\ b2[1] = 1
          sid == IF hasSid THEN SubSeq(b2, 2, SpanIDLen + 1) ELSE Zeros(SpanIDLen)
          b3 == IF hasSid THEN SubSeq(b2, SpanIDLen + 2, Len(b2)) ELSE b2
          opts == IF Len(b3) >= 2 /\ b3[1] = 2 THEN b3[2] ELSE 0
      IN [sc |-> [TraceID |-> tid, SpanID |-> sid, TraceOptions |-> opts],
          ok |-> TRUE]

(* ------------------------------------------------------------------ *)
(* metadata.MD                                                         *)
(* ------------------------------------------------------------------ *)

EmptyMD == [k \in {} |-> <<>>]

\* md[key]: the values of the key, nil (no value) for a key md lacks
Get(md, k) == IF k \in DOMAIN md THEN md[k] ELSE <<>>

\* metadata.AppendToOutgoingContext(ctx, key, value): the outgoing
\* metadata of the returned context, the rest of it as it was
AppendToOutgoingContext(out, k, v) ==
  [x \in (DOMAIN out) \cup {k} |->
     IF x = k THEN Append(Get(out, k), v) ELSE out[x]]

(* ------------------------------------------------------------------ *)
(* The tracing backend, as far as the handlers use it                  *)
(* ------------------------------------------------------------------ *)

\* strings.TrimPrefix(name, "/") then strings.Replace(name, "/", ".", -1)
SpanName(fullMethodName) ==
  LET t == IF Len(fullMethodName) > 0 /\ fullMethodName[1] = "/"
           THEN Tail(fullMethodName) ELSE fullMethodName
  IN [i \in 1..Len(t) |-> IF t[i] = "/" THEN "." ELSE t[i]]

\* trace.StartSpan(ctx, name, WithSpanKind(kind), WithSampler(..)): a child
\* of the span ctx carries (cur, at most one), a root of a new trace if
\* it carries none. tid, sid and smp are the backend's fresh trace id,
\* fresh span id and the sampler's decision.
StartSpan(cur, name, kind, tid, sid, smp) ==
  [via |-> "StartSpan", kind |-> kind, name |-> name,
   TraceID |-> IF Len(cur) > 0 THEN cur[1].TraceID ELSE tid,
   SpanID |-> sid,
   ParentSpanID |-> IF Len(cur) > 0 THEN cur[1].SpanID ELSE Zeros(SpanIDLen),
   hasRemoteParent |-> FALSE,
   TraceOptions |-> smp,
   links |-> <<>>, attributes |-> <<>>, messageEvents |-> <<>>,
   status |-> <<>>, statusCalls |-> 0, endCalls |-> 0]

\* trace.StartSpanWithRemoteParent(ctx, name, parent, ...)
StartSpanWithRemoteParent(name, parent, kind, sid, smp) ==
  [via |-> "StartSpanWithRemoteParent", kind |-> kind, name |-> name,
   TraceID |-> parent.TraceID,
   SpanID |-> sid,
   ParentSpanID |-> parent.SpanID,
   hasRemoteParent |-> TRUE,
   TraceOptions |-> smp,
   links |-> <<>>, attributes |-> <<>>, messageEvents |-> <<>>,
   status |-> <<>>, statusCalls |-> 0, endCalls |-> 0]

\* span.SpanContext()
SpanContextOf(span) ==
  [TraceID |-> span.TraceID, SpanID |-> span.SpanID,
   TraceOptions |-> span.TraceOptions]

\* span.AddLink(trace.Link{TraceID, SpanID, Type: LinkTypeChild})
AddLink(span, parent) ==
  [span EXCEPT !.links =
     Append(@, [TraceID |-> parent.TraceID, SpanID |-> parent.SpanID,
                Type |-> "child"])]

(* ------------------------------------------------------------------ *)
(* The handlers                                                        *)
(* ------------------------------------------------------------------ *)

\* A plausible slip: the context that is serialized is the one of the span
\* ctx carried before the call, not the one of the span just started
ClientTraceTagRPCStaleContext(cur, out, fullMethodName, tid, sid, smp) ==
  LET span == StartSpan(cur, SpanName(fullMethodName), "client", tid, sid, smp)
      traceContextBinary == Binary(IF Len(cur) > 0 THEN cur[1] ELSE ZeroSC)
  IN [spans |-> <<span>>,
      out |-> AppendToOutgoingContext(out, traceContextKey, traceContextBinary)]

\* ClientHandler.traceTagRPC on a context carrying the span context cur
\* (at most one) and the outgoing metadata out: the span it starts and the
\* outgoing metadata of the context it returns
ClientTraceTagRPC(cur, out, fullMethodName, tid, sid, smp) ==
  LET span == StartSpan(cur, SpanName(fullMethodName), "client", tid, sid, smp)
      traceContextBinary == Binary(SpanContextOf(span))
  IN [spans |-> <<span>>,
      out |-> AppendToOutgoingContext(out, traceContextKey, traceContextBinary)]

\* A plausible slip: the secondary header is decoded whatever the primary gave
ShouldDecodeJaegerAlways(md, haveParent) ==
  /\ jaegerContextKey \in DOMAIN md
  /\ Len(md[jaegerContextKey]) > 0

\* "if jaegerContext, ok := md[jaegerContextKey]; ok" and
\* "if !haveParent && len(jaegerContext) > 0"
ShouldDecodeJaeger(md, haveParent) ==
  /\ jaegerContextKey \in DOMAIN md
  /\ ~haveParent
  /\ Len(md[jaegerContextKey]) > 0

\* ServerHandler.traceTagRPC on a context whose incoming metadata is in
\* (ok = FALSE, md empty: the context holds none) and which carries no span.
\* spans: the spans started, in order; the last one is in the returned
\* context. panic: the call did not return. jaegerDecoded: whether
\* spanContextFromJaeger was called.
ServerTraceTagRPC(in, public, fullMethodName, tid, sid, smp) ==
  LET md == in.md
      name == SpanName(fullMethodName)
      traceContext == Get(md, traceContextKey)
      bin == IF Len(traceContext) > 0
             THEN FromBinary(traceContext[1])
             ELSE [sc |-> ZeroSC, ok |-> FALSE]
  IN
  IF Len(traceContext) > 0 /\ bin.ok /\ ~public
  THEN [panic |-> FALSE, jaegerDecoded |-> FALSE,
        haveParent |-> TRUE, parent |-> bin.sc,
        spans |-> <<StartSpanWithRemoteParent(name, bin.sc, "server", sid, smp)>>]
  ELSE
    LET decode == ShouldDecodeJaeger(md, bin.ok)
        j == IF decode
             THEN spanContextFromJaeger(md[jaegerContextKey][1])
             ELSE [panic |-> FALSE, parent |-> bin.sc, ok |-> bin.ok]
        root == StartSpan(<<>>, name, "server", tid, sid, smp)
    IN
    IF j.panic
    THEN [panic |-> TRUE, jaegerDecoded |-> TRUE,
          haveParent |-> FALSE, parent |-> ZeroSC, spans |-> <<>>]
    ELSE IF decode /\ j.ok /\ ~public
    THEN [panic |-> FALSE, jaegerDecoded |-> TRUE,
          haveParent |-> TRUE, parent |-> j.parent,
          spans |-> <<StartSpanWithRemoteParent(name, j.parent, "server", sid, smp)>>]
    ELSE [panic |-> FALSE, jaegerDecoded |-> decode,
          haveParent |-> j.ok, parent |-> j.parent,
          spans |-> <<IF j.ok THEN AddLink(root, j.parent) ELSE root>>]

\* A plausible slip: the last value of the key is relayed, not the first
JaegerTracePropagateUnaryInterceptorLast(in, out) ==
  IF in.ok /\ jaegerContextKey \in DOMAIN in.md
           /\ Len(in.md[jaegerContextKey]) > 0
  THEN AppendToOutgoingContext(out, jaegerContextKey,
         in.md[jaegerContextKey][Len(in.md[jaegerContextKey])])
  ELSE out

\* JaegerTracePropagateUnaryInterceptor: the outgoing metadata of the
\* context the handler is called with
JaegerTracePropagateUnaryInterceptor(in, out) ==
  IF in.ok /\ jaegerContextKey \in DOMAIN in.md
           /\ Len(in.md[jaegerContextKey]) > 0
  THEN AppendToOutgoingContext(out, jaegerContextKey, in.md[jaegerContextKey][1])
  ELSE out

\* JaegerTracePropagateStreamInterceptor: the outgoing metadata of the
\* wrapped stream's context
JaegerTracePropagateStreamInterceptor(in, out) ==
  LET newCtx == out IN
  IF in.ok /\ jaegerContextKey \in DOMAIN in.md
           /\ Len(in.md[jaegerContextKey]) > 0
  THEN AppendToOutgoingContext(newCtx, jaegerContextKey, in.md[jaegerContextKey][1])
  ELSE newCtx

\* status.FromError on a non-nil error: the status the error carries, or
\* codes.Unknown with the error's text and ok = FALSE
StatusFromError(err) ==
  IF err.hasStatus
  THEN [ok |-> TRUE, Code |-> err.code, Message |-> err.message]
  ELSE [ok |-> FALSE, Code |-> 2, Message |-> err.text]

\* span.SetStatus
SetStatus(span, st) ==
  [span EXCEPT !.status = <<st>>, !.statusCalls = @ + 1]

\* span.End
End(span) == [span EXCEPT !.endCalls = @ + 1]

\* A plausible slip: span.End() only on the path without error
HandleEndNoEndOnError(span, rs) ==
  IF Len(rs.Error) > 0
  THEN LET s == StatusFromError(rs.Error[1]) IN
       SetStatus(span, [Code |-> s.Code, Message |-> s.Message])
  ELSE End(span)

\* "case *stats.End:" of traceHandleRPC; Error holds at most one error
HandleEnd(span, rs) ==
  IF Len(rs.Error) > 0
  THEN LET s == StatusFromError(rs.Error[1]) IN
       IF s.ok
       THEN End(SetStatus(span, [Code |-> s.Code, Message |-> s.Message]))
       ELSE End(SetStatus(span, [Code |-> Internal,
                                 Message |-> rs.Error[1].text]))
  ELSE End(span)

\* traceHandleRPC on the span of the context (trace.FromContext(ctx))
traceHandleRPC(span, rs) ==
  CASE rs.type = "Begin" ->
         [span EXCEPT !.attributes =
            @ \o <<[key |-> "Client", value |-> rs.Client],
                   [key |-> "FailFast", value |-> rs.FailFast]>>]
    [] rs.type = "InPayload" ->
         [span EXCEPT !.messageEvents =
            Append(@, [dir |-> "receive", id |-> 0,
                       uncompressed |-> rs.Length, compressed |-> rs.WireLength])]
    [] rs.type = "OutPayload" ->
         [span EXCEPT !.messageEvents =
            Append(@, [dir |-> "send", id |-> 0,
                       uncompressed |-> rs.Length, compressed |-> rs.WireLength])]
    [] rs.type = "End" -> HandleEnd(span, rs)
    [] OTHER -> span

(* ------------------------------------------------------------------ *)
(* Inputs                                                              *)
(* ------------------------------------------------------------------ *)

\* the n-character hex field of digit pattern k
HexField(n, k) == [i \in 1..n |-> HexDigits[((7 * i + 9 * k + 9) % 16) + 1]]

\* a field with the character at position p replaced by one that is no hex digit
BadAt(f, p) == [f EXCEPT ![p] = "g"]

\* "f0:f1:f2:f3"
Header4(f0, f1, f2, f3) == f0 \o <<":">> \o f1 \o <<":">> \o f2 \o <<":">> \o f3

\* "463ac35c9f6413ad"
ExampleTraceField ==
  <<"4","6","3","a","c","3","5","c","9","f","6","4","1","3","a","d">>

\* "463ac35c9f6413ad:0:0:1"
ExampleHeader == Header4(ExampleTraceField, <<"0">>, <<"0">>, <<"1">>)

\* "a:b:c" (3 fields), "" (1 field), "a:b:c:d:e" (5 fields)
NotFourFields ==
  { <<"a",":","b",":","c">>, <<>>, <<"a",":","b",":","c",":","d",":","e">> }

ByteSeq(n, first) == [i \in 1..n |-> first + i]

\* span contexts of remote peers
RemoteA == [TraceID |-> ByteSeq(TraceIDLen, 16), SpanID |-> ByteSeq(SpanIDLen, 64),
            TraceOptions |-> 1]

RemoteB == [TraceID |-> ByteSeq(TraceIDLen, 128), SpanID |-> ByteSeq(SpanIDLen, 160),
            TraceOptions |-> 0]

\* ids the tracing backend hands out (never zero)
FreshTraceIDs == { ByteSeq(TraceIDLen, 200) }

FreshSpanIDs == { ByteSeq(SpanIDLen, 220), ByteSeq(SpanIDLen, 230) }

\* "/s/m"
FullMethodName == <<"/","s","/","m">>

\* an optional key of a metadata: <<>> (the key is absent) or <<values>>
MkMD(bin, jaeger) ==
  [k \in (IF Len(bin) > 0 THEN {traceContextKey} ELSE {})
         \cup (IF Len(jaeger) > 0 THEN {jaegerContextKey} ELSE {}) |->
     IF k = traceContextKey THEN bin[1] ELSE jaeger[1]]

\* values of the primary key: absent, no value, valid, several values,
\* empty, wrong version, truncated, a malformed value before a valid one
PrimaryOptions ==
  { <<>>, << <<>> >>,
    << <<Binary(RemoteA)>> >>,
    << <<Binary(RemoteB), Binary(RemoteA)>> >>,
    << << <<>> >> >>,
    << << <<1>> \o Tail(Binary(RemoteA)) >> >>,
    << << SubSeq(Binary(RemoteA), 1, TraceIDLen) >> >>,
    << << <<1, 0>>, Binary(RemoteA) >> >> }

\* values of the secondary key
SecondaryValues ==
  NotFourFields \cup
  { ExampleHeader,
    Header4(HexField(2 * TraceIDLen, 0), HexField(2 * SpanIDLen, 1), <<"0">>, <<"0">>),
    Header4(HexField(5, 0), HexField(3, 1), <<>>, <<"1">>),
    Header4(<<"z","z">>, <<"1">>, <<"0">>, <<"1">>),
    Header4(HexField(6, 0), <<"z","z">>, <<"0">>, <<"1">>),
    Header4(HexField(2 * TraceIDLen + 2, 0), <<"1">>, <<"0">>, <<"1">>),
    Header4(HexField(4, 0), HexField(2 * SpanIDLen + 2, 1), <<"0">>, <<"1">>),
    Header4(HexField(2 * TraceIDLen + 2, 0), <<"z","z">>, <<"0">>, <<"1">>) }

SecondaryOptions ==
  { <<>>, << <<>> >> } \cup { << <<v>> >> : v \in SecondaryValues }
     \cup { << <<ExampleHeader, <<"a",":","b",":","c">> >> >> }

\* incoming metadata of a call from a foreign peer
ForeignIncoming ==
  { [ok |-> FALSE, md |-> EmptyMD] } \cup
  { [ok |-> TRUE, md |-> MkMD(b, j)] : b \in PrimaryOptions, j \in SecondaryOptions }

\* outgoing metadata the client's context holds before the call is tagged
ClientOutgoing ==
  { EmptyMD,
    MkMD(<<>>, << <<ExampleHeader>> >>),
    MkMD(<< <<Binary(RemoteB)>> >>, <<>>),
    MkMD(<< << <<1, 0>> >> >>, << <<ExampleHeader>> >>) }

\* outgoing metadata the server's context holds before the relay runs
ServerOutgoing ==
  { EmptyMD, MkMD(<< <<Binary(RemoteB)>> >>, << << <<"o","l","d">> >> >>) }

\* lifecycle events (stats.RPCStats) and the errors an End carries
Errors ==
  { [hasStatus |-> TRUE, code |-> 5, message |-> "not found",
     text |-> "rpc error: code = NotFound desc = not found"],
    [hasStatus |-> TRUE, code |-> 14, message |-> "",
     text |-> "rpc error: code = Unavailable desc = "],
    [hasStatus |-> FALSE, code |-> 0, message |-> "", text |-> "boom"] }

Events ==
  { [type |-> "Begin", Client |-> c, FailFast |-> f] : c, f \in BOOLEAN } \cup
  { [type |-> t, Length |-> 5, WireLength |-> 3] : t \in {"InPayload", "OutPayload"} } \cup
  { [type |-> "End", Error |-> <<>>] } \cup
  { [type |-> "End", Error |-> <<e>>] : e \in Errors }

(* ------------------------------------------------------------------ *)
(* State                                                               *)
(* ------------------------------------------------------------------ *)

VARIABLES
  cliCtx,            \* the client's context before tagging: [span, out]
  cliPc,             \* "start", "tagged" (traceTagRPC returned), "sent"
  cliSpans,          \* spans the client's traceTagRPC started
  cliOut,            \* outgoing metadata of the client's context
  incoming,          \* incoming metadata of the server's context: [ok, md]
  IsPublicEndpoint,  \* ServerHandler.IsPublicEndpoint
  srvPc,             \* "start", "tagged" (traceTagRPC returned), "panicked"
  srvSpans,          \* spans the server's traceTagRPC started, in order
  srvTrace,          \* what traceTagRPC did: [jaegerDecoded, haveParent, parent]
  srvIds,            \* the backend's choices in traceTagRPC: [tid, sid, smp]
  srvOut,            \* outgoing metadata of the server's context
  handlerOut,        \* outgoing metadata of the context given to the handler
  relay,             \* "none", or the interceptor that ran: "unary", "stream"
  jv,                \* the header given to spanContextFromJaeger
  decoded,           \* its result, once called (at most one)
  active,            \* the span of the call the events belong to
  before,            \* that span before the last event
  lastEvent,         \* the last event delivered (at most one)
  nEvents            \* events delivered

vars == <<cliCtx, cliPc, cliSpans, cliOut, incoming, IsPublicEndpoint, srvPc,
          srvSpans, srvTrace, srvIds, srvOut, handlerOut, relay, jv, decoded,
          active, before, lastEvent, nEvents>>

callVars == <<cliCtx, cliPc, cliSpans, cliOut, incoming, IsPublicEndpoint, srvPc,
              srvSpans, srvTrace, srvIds, srvOut, handlerOut, relay>>

decodeVars == <<jv, decoded>>

eventVars == <<active, before, lastEvent, nEvents>>

NoTrace == [jaegerDecoded |-> FALSE, haveParent |-> FALSE, parent |-> ZeroSC]

NoIds == [tid |-> Zeros(TraceIDLen), sid |-> Zeros(SpanIDLen), smp |-> 0]

NoIncoming == [ok |-> FALSE, md |-> EmptyMD]

\* no call is being set up
IdleCall ==
  /\ cliCtx = [span |-> <<>>, out |-> EmptyMD]
  /\ cliPc = "start" /\ cliSpans = <<>> /\ cliOut = EmptyMD
  /\ incoming = NoIncoming /\ IsPublicEndpoint = FALSE
  /\ srvPc = "start" /\ srvSpans = <<>> /\ srvTrace = NoTrace /\ srvIds = NoIds
  /\ srvOut = EmptyMD /\ handlerOut = EmptyMD /\ relay = "none"

IdleDecode == jv = <<>> /\ decoded = <<>>

IdleEvents == active = <<>> /\ before = <<>> /\ lastEvent = <<>> /\ nEvents = 0

(* ------------------------------------------------------------------ *)
(* Setting up one call: Spec                                           *)
(* ------------------------------------------------------------------ *)

\* A call is about to be set up: either a foreign peer's metadata is
\* already in the server's context, or the client of this package is about
\* to tag the call and send it.
Init ==
  /\ IsPublicEndpoint \in BOOLEAN
  /\ srvOut \in ServerOutgoing
  /\ \/ /\ incoming \in ForeignIncoming
        /\ cliCtx = [span |-> <<>>, out |-> EmptyMD]
     \/ /\ incoming = NoIncoming
        /\ cliCtx \in [span : {<<>>, <<RemoteB>>}, out : ClientOutgoing]
  /\ cliOut = cliCtx.out
  /\ cliPc = "start" /\ cliSpans = <<>>
  /\ srvPc = "start" /\ srvSpans = <<>> /\ srvTrace = NoTrace /\ srvIds = NoIds
  /\ handlerOut = srvOut /\ relay = "none"
  /\ IdleDecode /\ IdleEvents

\* the client's stats handler tags the outgoing call, before anything of
\* the call reaches the server
ClientTagRPC ==
  /\ cliPc = "start" /\ srvPc = "start" /\ relay = "none"
  /\ \E tid \in FreshTraceIDs, sid \in FreshSpanIDs, smp \in {0, 1} :
       LET r == ClientTraceTagRPC(cliCtx.span, cliCtx.out, FullMethodName,
                                  tid, sid, smp)
       IN cliSpans' = r.spans /\ cliOut' = r.out
  /\ cliPc' = "tagged"
  /\ UNCHANGED <<cliCtx, incoming, IsPublicEndpoint, srvPc, srvSpans, srvTrace,
                 srvIds, srvOut, handlerOut, relay, decodeVars, eventVars>>

\* the transport carries the outgoing metadata of the tagged call to the
\* server, every key with its values in order
Transmit ==
  /\ cliPc = "tagged" /\ srvPc = "start" /\ relay = "none"
  /\ incoming' = [ok |-> TRUE, md |-> cliOut]
  /\ cliPc' = "sent"
  /\ UNCHANGED <<cliCtx, cliSpans, cliOut, IsPublicEndpoint, srvPc, srvSpans,
                 srvTrace, srvIds, srvOut, handlerOut, relay, decodeVars, eventVars>>

\* the server's stats handler tags the incoming call
ServerTagRPC ==
  /\ srvPc = "start" /\ cliPc \in {"start", "sent"}
  /\ \E tid \in FreshTraceIDs, sid \in FreshSpanIDs, smp \in {0, 1} :
       LET r == ServerTraceTagRPC(incoming, IsPublicEndpoint, FullMethodName,
                                  tid, sid, smp)
       IN /\ srvPc' = IF r.panic THEN "panicked" ELSE "tagged"
          /\ srvSpans' = r.spans
          /\ srvTrace' = [jaegerDecoded |-> r.jaegerDecoded,
                          haveParent |-> r.haveParent, parent |-> r.parent]
          /\ srvIds' = [tid |-> tid, sid |-> sid, smp |-> smp]
  /\ UNCHANGED <<cliCtx, cliPc, cliSpans, cliOut, incoming, IsPublicEndpoint,
                 srvOut, handlerOut, relay, decodeVars, eventVars>>

\* a unary call reaches the interceptor chain (the relay is a layer of its
\* own: it runs with or without the stats handler, unless that one panicked)
UnaryInterceptor ==
  /\ srvPc # "panicked" /\ relay = "none" /\ cliPc \in {"start", "sent"}
  /\ handlerOut' = JaegerTracePropagateUnaryInterceptor(incoming, srvOut)
  /\ relay' = "unary"
  /\ UNCHANGED <<cliCtx, cliPc, cliSpans, cliOut, incoming, IsPublicEndpoint,
                 srvPc, srvSpans, srvTrace, srvIds, srvOut, decodeVars, eventVars>>

\* a streaming call reaches the interceptor chain
StreamInterceptor ==
  /\ srvPc # "panicked" /\ relay = "none" /\ cliPc \in {"start", "sent"}
  /\ handlerOut' = JaegerTracePropagateStreamInterceptor(incoming, srvOut)
  /\ relay' = "stream"
  /\ UNCHANGED <<cliCtx, cliPc, cliSpans, cliOut, incoming, IsPublicEndpoint,
                 srvPc, srvSpans, srvTrace, srvIds, srvOut, decodeVars, eventVars>>

Next ==
  \/ ClientTagRPC
  \/ Transmit
  \/ ServerTagRPC
  \/ UnaryInterceptor
  \/ StreamInterceptor

Spec == Init /\ [][Next]_vars

(* ------------------------------------------------------------------ *)
(* The decoder alone: SpecDecode                                       *)
(* ------------------------------------------------------------------ *)

TraceFields ==
  { HexField(n, k) : n \in 0..MaxTraceHexLen, k \in 0..(NumPatterns - 1) } \cup
  { BadAt(HexField(n, 0), p) : n \in {4, 2 * TraceIDLen + 2}, p \in {1, 4} } \cup
  { ExampleTraceField, <<"A","b","C">> }

SpanFields ==
  { HexField(n, k) : n \in 0..MaxSpanHexLen, k \in 0..(NumPatterns - 1) } \cup
  { BadAt(HexField(n, 1), p) : n \in {3, 2 * SpanIDLen + 2}, p \in {1, 3} }

Flags == { <<"1">>, <<"0">>, <<>> }

DecodeInputs ==
  { Header4(t, s, <<"0">>, f) : t \in TraceFields, s \in SpanFields, f \in Flags }
    \cup NotFourFields

InitDecode ==
  /\ jv \in DecodeInputs
  /\ decoded = <<>>
  /\ IdleCall /\ IdleEvents

\* spanContextFromJaeger is called on the header
Decode ==
  /\ decoded = <<>>
  /\ decoded' = <<spanContextFromJaeger(jv)>>
  /\ UNCHANGED <<jv, callVars, eventVars>>

NextDecode == Decode

SpecDecode == InitDecode /\ [][NextDecode]_vars

(* ------------------------------------------------------------------ *)
(* The lifecycle events of one tagged call: SpecEvents                 *)
(* ------------------------------------------------------------------ *)

\* the spans of tagged calls: a client span, a server span with a remote
\* parent, a server root span with a link
TaggedSpans ==
  LET tid == CHOOSE t \in FreshTraceIDs : TRUE
      sid == CHOOSE x \in FreshSpanIDs : TRUE
      in == [ok |-> TRUE, md |-> MkMD(<< <<Binary(RemoteA)>> >>, <<>>)]
  IN { ClientTraceTagRPC(<<>>, EmptyMD, FullMethodName, tid, sid, 1).spans[1],
       ServerTraceTagRPC(in, FALSE, FullMethodName, tid, sid, 1).spans[1],
       ServerTraceTagRPC(in, TRUE, FullMethodName, tid, sid, 0).spans[1] }

InitEvents ==
  /\ active \in { <<sp>> : sp \in TaggedSpans }
  /\ before = <<>> /\ lastEvent = <<>> /\ nEvents = 0
  /\ IdleCall /\ IdleDecode

\* the transport delivers one lifecycle event of the call to traceHandleRPC
HandleRPC ==
  /\ nEvents < MaxEvents
  /\ \E rs \in Events :
       /\ active' = <<traceHandleRPC(active[1], rs)>>
       /\ lastEvent' = <<rs>>
  /\ before' = active
  /\ nEvents' = nEvents + 1
  /\ UNCHANGED <<callVars, decodeVars>>

NextEvents == HandleRPC

SpecEvents == InitEvents /\ [][NextEvents]_vars

(* ------------------------------------------------------------------ *)
(* Properties of the server's traceTagRPC (Spec)                       *)
(* ------------------------------------------------------------------ *)

\* traceTagRPC was invoked on the server: it returned or it panicked
ServerRan == srvPc # "start"

PrimaryValues == Get(incoming.md, traceContextKey)

SecondaryValuesIn == Get(incoming.md, jaegerContextKey)

\* the primary key is present and its first value binary-decodes
PrimaryDecodes == Len(PrimaryValues) > 0 /\ FromBinary(PrimaryValues[1]).ok

\* the context the first primary value decodes to
PrimaryContext == FromBinary(PrimaryValues[1]).sc

\* the primary key is present with a value that fails to decode
PrimaryFails == Len(PrimaryValues) > 0 /\ ~FromBinary(PrimaryValues[1]).ok

AllHex(f) == \A i \in 1..Len(f) : IsHexChar(f[i])

\* the server started exactly one span, a root span made by StartSpan
OneRootSpan ==
  /\ srvPc = "tagged"
  /\ Len(srvSpans) = 1
  /\ srvSpans[1].kind = "server"
  /\ srvSpans[1].via = "StartSpan"
  /\ ~srvSpans[1].hasRemoteParent
  /\ srvSpans[1].ParentSpanID = Zeros(SpanIDLen)

\* the server started exactly one span, with sc as its remote parent
OneChildOf(sc) ==
  /\ srvPc = "tagged"
  /\ Len(srvSpans) = 1
  /\ srvSpans[1].kind = "server"
  /\ srvSpans[1].via = "StartSpanWithRemoteParent"
  /\ srvSpans[1].hasRemoteParent
  /\ srvSpans[1].TraceID = sc.TraceID
  /\ srvSpans[1].ParentSpanID = sc.SpanID

LinkTo(sc) == [TraceID |-> sc.TraceID, SpanID |-> sc.SpanID, Type |-> "child"]

RemoveKey(md, k) == [x \in (DOMAIN md) \ {k} |-> md[x]]

\* what the server's traceTagRPC does on the metadata md with the policy
\* and the backend's choices of the current call
OutcomeOn(md) ==
  LET r == ServerTraceTagRPC([ok |-> TRUE, md |-> md], IsPublicEndpoint,
                             FullMethodName, srvIds.tid, srvIds.sid, srvIds.smp)
  IN [panic |-> r.panic, spans |-> r.spans]

Outcome == [panic |-> srvPc = "panicked", spans |-> srvSpans]

\* C1 (as claimed): with no usable primary parent, a secondary header whose
\* field count is not 4 gives no parent: spanContextFromJaeger reports
\* ok = FALSE and the server span is a root span without link, for either
\* value of IsPublicEndpoint.
C1_NotFourFieldsNoParent ==
  (/\ ServerRan
   /\ ~PrimaryDecodes
   /\ Len(SecondaryValuesIn) > 0
   /\ Len(Split(SecondaryValuesIn[1])) # 4)
  => /\ ~spanContextFromJaeger(SecondaryValuesIn[1]).ok
     /\ OneRootSpan
     /\ srvSpans[1].links = <<>>

\* C2 (as claimed): traceTagRPC never aborts the call: whatever the
\* metadata and the policy, it returns a context carrying a started server
\* span.
C2_NeverAborts ==
  ServerRan => /\ srvPc = "tagged"
               /\ Len(srvSpans) >= 1
               /\ srvSpans[Len(srvSpans)].kind = "server"

\* C3 (as claimed): with IsPublicEndpoint, for every inbound metadata the
\* server span is started as a root span, never with a remote parent, and
\* with a decodable primary parent it carries exactly one link, of type
\* child, to that parent.
C3_PublicEndpointRootSpan ==
  (ServerRan /\ IsPublicEndpoint)
  => /\ OneRootSpan
     /\ PrimaryDecodes => srvSpans[1].links = <<LinkTo(PrimaryContext)>>

\* C6: the primary format takes precedence: when the primary key is
\* present and decodes, the secondary header is not decoded and the remote
\* parent (not a public endpoint) or the only link (public endpoint) is
\* the primary context, whatever the secondary header holds; the
\* secondary header is decoded only when the primary key is absent or
\* fails to decode.
C6_PrimaryPrecedence ==
  ServerRan =>
    /\ PrimaryDecodes =>
         /\ ~srvTrace.jaegerDecoded
         /\ srvTrace.haveParent /\ srvTrace.parent = PrimaryContext
         /\ IF IsPublicEndpoint
            THEN OneRootSpan /\ srvSpans[1].links = <<LinkTo(PrimaryContext)>>
            ELSE OneChildOf(PrimaryContext) /\ srvSpans[1].links = <<>>
    /\ srvTrace.jaegerDecoded =>
         (Len(PrimaryValues) = 0 \/ ~FromBinary(PrimaryValues[1]).ok)

\* C6's case: a decodable primary value beside a secondary header that
\* would decode to another context, on a public and on a private endpoint
C6_Witness ==
  /\ srvPc = "tagged"
  /\ PrimaryDecodes /\ PrimaryContext = RemoteA
  /\ Len(SecondaryValuesIn) > 0 /\ SecondaryValuesIn[1] = ExampleHeader
  /\ ~IsPublicEndpoint
  /\ srvSpans[1].TraceID = RemoteA.TraceID

\* C7 (as claimed): a decode failure is treated as absence: a primary
\* value that fails to decode gives the outcome of the same metadata
\* without the primary key, and a 4-field secondary value whose trace-id
\* or span-id field is no valid hex gives the outcome of the same
\* metadata without the secondary key.
C7_DecodeFailureAsAbsence ==
  ServerRan =>
    /\ PrimaryFails => Outcome = OutcomeOn(RemoveKey(incoming.md, traceContextKey))
    /\ (/\ Len(SecondaryValuesIn) > 0
        /\ Len(Split(SecondaryValuesIn[1])) = 4
        /\ \/ ~AllHex(Split(SecondaryValuesIn[1])[1])
           \/ ~AllHex(Split(SecondaryValuesIn[1])[2]))
       => /\ Outcome = OutcomeOn(RemoveKey(incoming.md, jaegerContextKey))
          /\ ~PrimaryDecodes => OneRootSpan /\ srvSpans[1].links = <<>>

\* C10 (as claimed): one invocation of the server's traceTagRPC starts
\* exactly one server span, and one invocation of the client's starts
\* exactly one client span and appends exactly one value under the
\* primary key.
C10_OneSpanPerCall ==
  /\ ServerRan => Len(srvSpans) = 1 /\ srvSpans[1].kind = "server"
  /\ cliPc # "start" =>
       /\ Len(cliSpans) = 1 /\ cliSpans[1].kind = "client"
       /\ Len(Get(cliOut, traceContextKey))
            = Len(Get(cliCtx.out, traceContextKey)) + 1
       /\ RemoveKey(cliOut, traceContextKey)
            = RemoveKey(cliCtx.out, traceContextKey)

(* ------------------------------------------------------------------ *)
(* Properties of the client's traceTagRPC and of the relay (Spec)      *)
(* ------------------------------------------------------------------ *)

\* the client tagged the call, the transport delivered it and the
\* server's traceTagRPC ran on it
EndToEnd == cliPc = "sent" /\ ServerRan

\* the outgoing metadata holds, as the last value of the primary key, the
\* non-empty serialization of the span the client just started
ClientInjected ==
  LET vs == Get(cliOut, traceContextKey) IN
  /\ Len(cliSpans) = 1
  /\ Len(vs) > 0
  /\ Len(vs[Len(vs)]) > 0
  /\ FromBinary(vs[Len(vs)]).ok
  /\ FromBinary(vs[Len(vs)]).sc = SpanContextOf(cliSpans[1])

\* C4 (as claimed): end to end, whatever the outgoing metadata of the
\* client's context held before, the tagged call carries a non-empty
\* primary value and a server that is no public endpoint starts its span
\* with the client's new span as remote parent.
C4_EndToEndAnyOutgoing ==
  /\ cliPc # "start" => ClientInjected
  /\ (EndToEnd /\ ~IsPublicEndpoint) => OneChildOf(SpanContextOf(cliSpans[1]))

\* C4 (amended): the tagged call always carries the new span's non-empty
\* serialization as the last primary value; when the outgoing metadata of
\* the client's context held no primary value before, a server that is no
\* public endpoint starts its span with the client's new span as remote
\* parent (same TraceID, parent SpanID = the new span's SpanID).
C4_EndToEndFreshKey ==
  /\ cliPc # "start" => ClientInjected
  /\ (EndToEnd /\ ~IsPublicEndpoint /\ Len(Get(cliCtx.out, traceContextKey)) = 0)
     => OneChildOf(SpanContextOf(cliSpans[1]))

\* C4's case: a call tagged on a context that carries a span and relayed
\* secondary metadata but no primary value, resolved by the server
C4_Witness ==
  /\ EndToEnd /\ ~IsPublicEndpoint /\ srvPc = "tagged"
  /\ Len(Get(cliCtx.out, traceContextKey)) = 0
  /\ Len(Get(cliCtx.out, jaegerContextKey)) > 0
  /\ Len(cliCtx.span) > 0
  /\ srvSpans[1].ParentSpanID = cliSpans[1].SpanID
  /\ srvSpans[1].TraceID = RemoteB.TraceID

\* the secondary key is in the incoming metadata with a first value
HasSecondary ==
  incoming.ok /\ jaegerContextKey \in DOMAIN incoming.md
              /\ Len(incoming.md[jaegerContextKey]) > 0

\* C5: after either interceptor, the outgoing metadata of the handler's
\* context is the one the context had, with the first value of the
\* incoming secondary key, unchanged, added as the last value of the
\* secondary key, whether or not that value can be parsed; without the
\* key in the incoming metadata it is the one the context had.
C5_RelayForwardsExactValue ==
  relay # "none" =>
    IF HasSecondary
    THEN /\ DOMAIN handlerOut = (DOMAIN srvOut) \cup {jaegerContextKey}
         /\ handlerOut[jaegerContextKey]
              = Get(srvOut, jaegerContextKey) \o <<incoming.md[jaegerContextKey][1]>>
         /\ \A k \in (DOMAIN srvOut) \ {jaegerContextKey} : handlerOut[k] = srvOut[k]
    ELSE handlerOut = srvOut

\* C5's case: the stream interceptor relayed the first of two values, one
\* that takes the decoder's not-4-fields path, after values the outgoing
\* metadata already held
C5_Witness ==
  /\ relay = "stream"
  /\ HasSecondary
  /\ Len(Split(incoming.md[jaegerContextKey][1])) # 4
  /\ Len(Get(srvOut, jaegerContextKey)) > 0
  /\ handlerOut[jaegerContextKey][Len(handlerOut[jaegerContextKey])]
       = <<"a",":","b",":","c">>

\* C5's second case: the unary interceptor relayed the first of two values
C5_WitnessUnary ==
  /\ relay = "unary"
  /\ HasSecondary
  /\ Len(incoming.md[jaegerContextKey]) = 2
  /\ handlerOut[jaegerContextKey] = <<ExampleHeader>>

(* ------------------------------------------------------------------ *)
(* Properties of the decoder (SpecDecode)                              *)
(* ------------------------------------------------------------------ *)

\* nibble j (0 = the lowest) of a byte buffer
Nibble(buf, j) ==
  LET byte == buf[Len(buf) - (j \div 2)] IN
  IF j % 2 = 0 THEN byte % 16 ELSE byte \div 16

\* nibble j (0 = the lowest) of the number a hex field writes, 0 beyond it
FieldNibble(f, j) == IF j < Len(f) THEN HexVal(f[Len(f) - j]) ELSE 0

\* buf holds the number the hex field f writes, right-aligned, zero-filled
RightAligned(buf, f) ==
  \A j \in 0..(2 * Len(buf) - 1) : Nibble(buf, j) = FieldNibble(f, j)

\* the header is in the domain of C8: 4 fields, field 0 at most 32 hex
\* characters, field 1 at most 16
InC8Domain ==
  /\ Len(Split(jv)) = 4
  /\ AllHex(Split(jv)[1]) /\ Len(Split(jv)[1]) <= 2 * TraceIDLen
  /\ AllHex(Split(jv)[2]) /\ Len(Split(jv)[2]) <= 2 * SpanIDLen

\* C8: on a 4-field header whose field 0 is a hex string of 0 to 32
\* characters and whose field 1 is one of 0 to 16, of odd or even length,
\* spanContextFromJaeger returns ok with TraceID the bytes of field 0 and
\* SpanID the bytes of field 1, right-aligned and zero-filled; an
\* odd-length field gives what the field with a leading "0" gives; the
\* header "463ac35c9f6413ad:0:0:1" gives TraceID
\* 0000000000000000463ac35c9f6413ad, SpanID 0.
C8_HexFieldsRightAligned ==
  (Len(decoded) = 1 /\ InC8Domain) =>
    LET r == decoded[1]
        p == Split(jv)
    IN /\ ~r.panic /\ r.ok
       /\ Len(r.parent.TraceID) = 16 /\ Len(r.parent.SpanID) = 8
       /\ RightAligned(r.parent.TraceID, p[1])
       /\ RightAligned(r.parent.SpanID, p[2])
       /\ Len(p[1]) <= 16 => \A i \in 1..8 : r.parent.TraceID[i] = 0
       /\ Len(p[1]) % 2 = 1 =>
            spanContextFromJaeger(Header4(<<"0">> \o p[1], p[2], p[3], p[4])) = r
       /\ Len(p[2]) % 2 = 1 =>
            spanContextFromJaeger(Header4(p[1], <<"0">> \o p[2], p[3], p[4])) = r
       /\ jv = ExampleHeader =>
            /\ r.parent.TraceID
                 = <<0, 0, 0, 0, 0, 0, 0, 0, 70, 58, 195, 92, 159, 100, 19, 173>>
            /\ r.parent.SpanID = <<0, 0, 0, 0, 0, 0, 0, 0>>

\* C8's case: a 31-character trace-id field and a 15-character span-id
\* field, both of odd length and not starting with "0", were decoded
C8_Witness ==
  /\ Len(decoded) = 1 /\ InC8Domain
  /\ Len(Split(jv)[1]) = 31 /\ Split(jv)[1][1] # "0"
  /\ Len(Split(jv)[2]) = 15 /\ Split(jv)[2][1] # "0"
  /\ decoded[1].ok
  /\ decoded[1].parent.TraceID[1] > 0 /\ decoded[1].parent.TraceID[1] < 16
  /\ decoded[1].parent.SpanID[1] > 0 /\ decoded[1].parent.SpanID[1] < 16

(* ------------------------------------------------------------------ *)
(* Properties of traceHandleRPC (SpecEvents)                           *)
(* ------------------------------------------------------------------ *)

\* C9: Begin, InPayload and OutPayload neither end the span nor set its
\* status; every End ends it, with or without error; the status is set
\* exactly by an End that carries an error, to the code and message of
\* the RPC status the error carries, and otherwise to Internal (13) with
\* the error's text.
C9_EndAndOnlyEndEndsSpan ==
  Len(lastEvent) = 1 =>
    LET rs == lastEvent[1]
        pre == before[1]
        post == active[1]
    IN /\ rs.type # "End" =>
            /\ post.endCalls = pre.endCalls
            /\ post.statusCalls = pre.statusCalls
            /\ post.status = pre.status
       /\ rs.type = "End" =>
            /\ post.endCalls = pre.endCalls + 1
            /\ IF Len(rs.Error) = 0
               THEN post.statusCalls = pre.statusCalls /\ post.status = pre.status
               ELSE /\ post.statusCalls = pre.statusCalls + 1
                    /\ post.status =
                         << IF rs.Error[1].hasStatus
                            THEN [Code |-> rs.Error[1].code,
                                  Message |-> rs.Error[1].message]
                            ELSE [Code |-> 13, Message |-> rs.Error[1].text] >>
       /\ (post.endCalls = 0) => post.status = <<>>

\* C9's case: after a Begin and a payload, an End carrying an error
\* without RPC status ended the span with the Internal status
C9_Witness ==
  /\ Len(lastEvent) = 1 /\ lastEvent[1].type = "End"
  /\ Len(lastEvent[1].Error) = 1 /\ ~lastEvent[1].Error[1].hasStatus
  /\ active[1].endCalls = 1
  /\ active[1].status = <<[Code |-> 13, Message |-> "boom"]>>
  /\ Len(active[1].attributes) = 2
  /\ Len(active[1].messageEvents) = 1

(* ------------------------------------------------------------------ *)
(* What the server's traceTagRPC guarantees on the calls on which it   *)
(* returns (Spec): C3, C7 and C10 with the panicking calls set aside,  *)
(* and what it does on a header that has not 4 fields                  *)
(* ------------------------------------------------------------------ *)

ServerReturned == srvPc = "tagged"

\* with IsPublicEndpoint no span ever has a remote parent, and a call that
\* returns has one root span, with one child link to a decodable primary
\* context
ReturnedPublicEndpointRootSpan ==
  /\ IsPublicEndpoint => \A i \in 1..Len(srvSpans) : ~srvSpans[i].hasRemoteParent
  /\ (ServerReturned /\ IsPublicEndpoint)
     => /\ OneRootSpan
        /\ PrimaryDecodes => srvSpans[1].links = <<LinkTo(PrimaryContext)>>

\* on a call that returns, a field that is no valid hex gives the outcome
\* of the metadata without the secondary key
ReturnedDecodeFailureAsAbsence ==
  (/\ ServerReturned
   /\ Len(SecondaryValuesIn) > 0
   /\ Len(Split(SecondaryValuesIn[1])) = 4
   /\ \/ ~AllHex(Split(SecondaryValuesIn[1])[1])
      \/ ~AllHex(Split(SecondaryValuesIn[1])[2]))
  => /\ Outcome = OutcomeOn(RemoveKey(incoming.md, jaegerContextKey))
     /\ ~PrimaryDecodes => OneRootSpan /\ srvSpans[1].links = <<>>

\* a call that returns started exactly one server span
ReturnedOneSpan ==
  ServerReturned => Len(srvSpans) = 1 /\ srvSpans[1].kind = "server"

\* a decoded header that has not 4 fields is taken as the zero span
\* context: the remote parent, or the link target on a public endpoint
NotFourFieldsZeroParent ==
  (/\ ServerRan
   /\ ~PrimaryDecodes
   /\ Len(SecondaryValuesIn) > 0
   /\ Len(Split(SecondaryValuesIn[1])) # 4)
  => IF IsPublicEndpoint
     THEN OneRootSpan /\ srvSpans[1].links = <<LinkTo(ZeroSC)>>
     ELSE OneChildOf(ZeroSC)

====
